---- MODULE Spec2Model ----
(***************************************************************************)
(* Model of the commission report generator (src/src/main.rs).            *)
(*                                                                         *)
(* Representation choices:                                                 *)
(*  - a text (String / &str) is a sequence of one-character strings;       *)
(*    a month label produced by format("%B %Y") is a TLA+ string;          *)
(*  - a NaiveDate is its number of days since 1970-01-01; year, month and  *)
(*    day are recovered by the proleptic Gregorian calendar;               *)
(*  - an f64 amount is an exact rational [num, den] in lowest terms        *)
(*    (binary rounding is not modelled);                                   *)
(*  - a HashMap is a function whose DOMAIN is the key set; the order in    *)
(*    which keys() yields them is unspecified and chosen arbitrarily;      *)
(*  - "U+0663" stands for one character, a decimal digit outside ASCII:    *)
(*    the regex crate's \d matches it, the from_str functions reject it;   *)
(*  - a panic (unwrap on Err/None, from_ymd on an invalid date) ends the   *)
(*    process: pc becomes "panicked" and nothing is written.               *)
(***************************************************************************)
EXTENDS Integers, Sequences, FiniteSets, TLC

VARIABLES rows, invoices, idx, invoices_by_month, ordered_months, sheets, pc,
          run, first_run

vars == <<rows, invoices, idx, invoices_by_month, ordered_months, sheets, pc,
          run, first_run>>

(***************************************************************************)
(* Bounds of the model.                                                    *)
(***************************************************************************)
\* longest input sheet (data rows) explored with the small row alphabet
MaxRows == 2
\* most '/'-separated groups in a generated payment-interval text
MaxGroups == 2

(***************************************************************************)
(* Program constants.                                                      *)
(***************************************************************************)
ImmediateDays == 30
DefaultCommission == 7
ExcelUnixEpoch == 25569
I16Max == 32767

CashMarker ==
  <<"A","N","T","E","C","I","P","A","D","O"," ","/"," ","A"," ",
    "V","I","S","T","A"," ","[","2","]">>

(***************************************************************************)
(* Characters and texts.                                                   *)
(***************************************************************************)
DigitChars == <<"0","1","2","3","4","5","6","7","8","9">>

\* a decimal digit outside ASCII (ARABIC-INDIC DIGIT THREE), one character
NonAsciiDigits == {"U+0663"}

\* the digits that i16::from_str, f64::from_str and chrono read
IsAsciiDigit(c) == \E i \in 1..10 : DigitChars[i] = c

\* \d of the regex crate: any Unicode decimal digit
IsDigit(c) == IsAsciiDigit(c) \/ c \in NonAsciiDigits

DigitValue(c) == (CHOOSE i \in 1..10 : DigitChars[i] = c) - 1

IsWhitespace(c) == c \in {" ", "\t", "\n", "\r"}

RECURSIVE ToNumber(_)
\* decimal value of a sequence of digit characters
ToNumber(s) ==
  IF Len(s) = 0 THEN 0
  ELSE 10 * ToNumber(SubSeq(s, 1, Len(s) - 1)) + DigitValue(s[Len(s)])

RECURSIVE TrimStart(_)
TrimStart(s) ==
  IF Len(s) > 0 /\ IsWhitespace(s[1]) THEN TrimStart(Tail(s)) ELSE s

RECURSIVE TrimEnd(_)
TrimEnd(s) ==
  IF Len(s) > 0 /\ IsWhitespace(s[Len(s)])
  THEN TrimEnd(SubSeq(s, 1, Len(s) - 1)) ELSE s

\* str::trim
Trim(s) == TrimEnd(TrimStart(s))

RECURSIVE Split(_, _)
\* str::split(sep): the pieces between separators, empty pieces included
Split(s, sep) ==
  IF \A i \in 1..Len(s) : s[i] # sep THEN <<s>>
  ELSE LET i == CHOOSE k \in 1..Len(s) :
                  s[k] = sep /\ \A j \in 1..(k - 1) : s[j] # sep
       IN <<SubSeq(s, 1, i - 1)>> \o Split(SubSeq(s, i + 1, Len(s)), sep)

RECURSIVE DigitsAt(_, _, _)
\* number of consecutive \d characters of s from position pos, at most maxw
DigitsAt(s, pos, maxw) ==
  IF maxw = 0 \/ pos > Len(s) \/ ~IsDigit(s[pos]) THEN 0
  ELSE 1 + DigitsAt(s, pos + 1, maxw - 1)

RECURSIVE AsciiDigitsAt(_, _, _)
\* number of consecutive ASCII digits of s from position pos, at most maxw
AsciiDigitsAt(s, pos, maxw) ==
  IF maxw = 0 \/ pos > Len(s) \/ ~IsAsciiDigit(s[pos]) THEN 0
  ELSE 1 + AsciiDigitsAt(s, pos + 1, maxw - 1)

(***************************************************************************)
(* Calendar (chrono::NaiveDate).                                           *)
(***************************************************************************)
MonthNames ==
  <<"January","February","March","April","May","June","July","August",
    "September","October","November","December">>

IsLeap(y) == (y % 4 = 0 /\ y % 100 # 0) \/ y % 400 = 0

DaysInMonth(y, m) ==
  IF m = 2 THEN (IF IsLeap(y) THEN 29 ELSE 28)
  ELSE IF m \in {4, 6, 9, 11} THEN 30 ELSE 31

\* days since 1970-01-01 of the civil date y-m-d
DaysFromCivil(y, m, d) ==
  LET yy  == IF m <= 2 THEN y - 1 ELSE y
      era == yy \div 400
      yoe == yy - era * 400
      mp  == (m + 9) % 12
      doy == (153 * mp + 2) \div 5 + d - 1
      doe == yoe * 365 + yoe \div 4 - yoe \div 100 + doy
  IN era * 146097 + doe - 719468

\* the civil date [y, m, d] of a day number
CivilFromDays(z) ==
  LET zz  == z + 719468
      era == zz \div 146097
      doe == zz - era * 146097
      yoe == (doe - doe \div 1460 + doe \div 36524 - doe \div 146096) \div 365
      doy == doe - (365 * yoe + yoe \div 4 - yoe \div 100)
      mp  == (5 * doy + 2) \div 153
      d   == doy - (153 * mp + 2) \div 5 + 1
      m   == IF mp < 10 THEN mp + 3 ELSE mp - 9
      y   == yoe + era * 400 + (IF m <= 2 THEN 1 ELSE 0)
  IN [y |-> y, m |-> m, d |-> d]

\* NaiveDate::from_ymd: None stands for the panic on an invalid date
FromYmd(y, m, d) ==
  IF m \in 1..12 /\ d >= 1 /\ d <= DaysInMonth(y, m)
  THEN [ok |-> TRUE, date |-> DaysFromCivil(y, m, d)]
  ELSE [ok |-> FALSE, date |-> 0]

\* date + Duration::days(n)
AddDays(date, n) == date + n

\* date.format("%B %Y").to_string()
FormatMonthYear(date) ==
  LET c == CivilFromDays(date)
  IN MonthNames[c.m] \o " " \o ToString(c.y)

\* NaiveDate::parse_from_str(s, "%m/%d/%Y")
ParseMDY(s) ==
  LET err == [ok |-> FALSE, date |-> 0]
      n1  == AsciiDigitsAt(s, 1, 2)
      p1  == 1 + n1
      n2  == AsciiDigitsAt(s, p1 + 1, 2)
      p2  == p1 + 1 + n2
      n3  == AsciiDigitsAt(s, p2 + 1, 4)
      p3  == p2 + 1 + n3
  IN IF n1 = 0 \/ p1 > Len(s) \/ s[p1] # "/" THEN err
     ELSE IF n2 = 0 \/ p2 > Len(s) \/ s[p2] # "/" THEN err
     ELSE IF n3 = 0 \/ p3 # Len(s) + 1 THEN err
     ELSE FromYmd(ToNumber(SubSeq(s, p2 + 1, p3 - 1)),
                  ToNumber(SubSeq(s, 1, n1)),
                  ToNumber(SubSeq(s, p1 + 1, p2 - 1)))


\* the error kinds of chrono's ParseError, in declaration order
ParseErrorKinds ==
  <<"OutOfRange", "Impossible", "NotEnough", "Invalid", "TooShort", "TooLong",
    "BadFormat">>

\* NaiveDate::parse_from_str(label, "%B %Y"): the month name and the year are
\* read, but no day field is present, so no date can be built from them
ParseMonthYear(label) ==
  IF \E m \in 1..12, y \in 1970..2100 :
        MonthNames[m] \o " " \o ToString(y) = label
  THEN [ok |-> FALSE, date |-> 0, err |-> "NotEnough"]
  ELSE [ok |-> FALSE, date |-> 0, err |-> "Invalid"]

\* Ord for Result<NaiveDate, ParseError>: Ok sorts before Err, Ok by date,
\* Err by error kind
CmpResult(a, b) ==
  LET kind(r) == CHOOSE i \in 1..Len(ParseErrorKinds) : ParseErrorKinds[i] = r.err
      ka == IF a.ok THEN a.date ELSE kind(a)
      kb == IF b.ok THEN b.date ELSE kind(b)
  IN IF a.ok /\ ~b.ok THEN "Less"
     ELSE IF ~a.ok /\ b.ok THEN "Greater"
     ELSE IF ka < kb THEN "Less"
     ELSE IF ka > kb THEN "Greater"
     ELSE "Equal"

\* the closure given to sort_by
CompareMonths(a, b) == CmpResult(ParseMonthYear(a), ParseMonthYear(b))

RECURSIVE InsertStable(_, _)
\* x placed after every element of the sorted sequence it is not Less than
InsertStable(sorted, x) ==
  IF Len(sorted) = 0 THEN <<x>>
  ELSE IF CompareMonths(x, sorted[Len(sorted)]) = "Less"
       THEN Append(InsertStable(SubSeq(sorted, 1, Len(sorted) - 1), x),
                   sorted[Len(sorted)])
       ELSE Append(sorted, x)

RECURSIVE SortBy(_)
\* slice::sort_by, a stable sort
SortBy(s) ==
  IF Len(s) = 0 THEN <<>>
  ELSE InsertStable(SortBy(SubSeq(s, 1, Len(s) - 1)), s[Len(s)])

(***************************************************************************)
(* The two regular expressions of get_commissions_by_month.                *)
(***************************************************************************)
\* mutant: the pattern without its '+', a single group
GroupsEndSingle(s, pos) ==
  LET n  == DigitsAt(s, pos, 3)
      p1 == pos + n
      p2 == IF p1 <= Len(s) /\ s[p1] = "/" THEN p1 + 1 ELSE p1
  IN IF n < 2 THEN pos ELSE p2

RECURSIVE GroupsEndWide(_, _)
\* mutant: groups of two to four digits
GroupsEndWide(s, pos) ==
  LET n  == DigitsAt(s, pos, 4)
      p1 == pos + n
      p2 == IF p1 <= Len(s) /\ s[p1] = "/" THEN p1 + 1 ELSE p1
  IN IF n < 2 THEN pos ELSE GroupsEndWide(s, p2)

RECURSIVE GroupsEnd(_, _)
\* ^((\d{2,3}/?)+) from position pos: each iteration takes three digits when
\* it can, else two, then a '/' when one follows; the first position after
\* the last iteration that matched
GroupsEnd(s, pos) ==
  LET n  == DigitsAt(s, pos, 3)
      p1 == pos + n
      p2 == IF p1 <= Len(s) /\ s[p1] = "/" THEN p1 + 1 ELSE p1
  IN IF n < 2 THEN pos ELSE GroupsEnd(s, p2)

\* installments_regex.is_match
InstallmentsIsMatch(s) == GroupsEnd(s, 1) > 1

\* installments_regex.captures(..).get(1).as_str()
InstallmentsCapture(s) == SubSeq(s, 1, GroupsEnd(s, 1) - 1)

\* special_commission_regex.is_match: (\d)% anywhere in the text
SpecialIsMatch(s) ==
  \E i \in 1..(Len(s) - 1) : IsDigit(s[i]) /\ s[i + 1] = "%"

\* special_commission_regex.captures(..).get(1): the digit of the leftmost match
SpecialCapture(s) ==
  LET i == CHOOSE k \in 1..(Len(s) - 1) :
             /\ IsDigit(s[k]) /\ s[k + 1] = "%"
             /\ \A j \in 1..(k - 1) : ~(IsDigit(s[j]) /\ s[j + 1] = "%")
  IN <<s[i]>>

\* i16::from_str on a piece of the captured text
I16FromStr(piece) ==
  IF Len(piece) = 0 \/ \E i \in 1..Len(piece) : ~IsAsciiDigit(piece[i])
  THEN [ok |-> FALSE, val |-> 0]
  ELSE IF ToNumber(piece) > I16Max THEN [ok |-> FALSE, val |-> 0]
  ELSE [ok |-> TRUE, val |-> ToNumber(piece)]

\* f64::from_str on the captured digit
F64FromStr(s) ==
  IF Len(s) = 0 \/ \E i \in 1..Len(s) : ~IsAsciiDigit(s[i])
  THEN [ok |-> FALSE, val |-> 0]
  ELSE [ok |-> TRUE, val |-> ToNumber(s)]

(***************************************************************************)
(* f64 amounts as exact rationals.                                         *)
(***************************************************************************)
RECURSIVE Gcd(_, _)
Gcd(a, b) == IF b = 0 THEN a ELSE Gcd(b, a % b)

Frac(n, d) ==
  LET g == Gcd(n, d)
  IN IF n = 0 THEN [num |-> 0, den |-> 1] ELSE [num |-> n \div g, den |-> d \div g]

\* mutant: the value is not split
InstallmentValueWhole(value, n) == value

\* invoice.value / intervals.len() as f64
InstallmentValue(value, n) == Frac(value.num, value.den * n)

\* (commission * installment_value) / f64::from(100)
CommissionValue(commission, installment_value) ==
  Frac(commission * installment_value.num, 100 * installment_value.den)

(***************************************************************************)
(* get_invoices: the rows of the input sheet (header row already skipped). *)
(* A cell is [t, s, n]: its calamine DataType, its text, its number.       *)
(***************************************************************************)
DateTimeCell(n) == [t |-> "DateTime", s |-> <<>>, n |-> n]
StringCell(s) == [t |-> "String", s |-> s, n |-> 0]
FloatCell(n) == [t |-> "Float", s |-> <<>>, n |-> n]
EmptyCell == [t |-> "Empty", s |-> <<>>, n |-> 0]

\* DataType::get_float().unwrap_or(0)
GetFloatOrZero(cell) == IF cell.t = "Float" THEN cell.n ELSE 0

\* DataType::get_string().unwrap_or("")
GetStringOrEmpty(cell) == IF cell.t = "String" THEN cell.s ELSE <<>>

\* the match on the emission cell: "some" with a date, "none" (row skipped),
\* or "panic" (from_ymd on an invalid date, unwrap of a parse error)
EmissionDate(cell) ==
  IF cell.t = "DateTime"
  THEN LET day_month_year_date == CivilFromDays(cell.n - ExcelUnixEpoch)
           swapped == FromYmd(day_month_year_date.y, day_month_year_date.d,
                              day_month_year_date.m)
       IN IF swapped.ok THEN [tag |-> "some", date |-> swapped.date]
          ELSE [tag |-> "panic", date |-> 0]
  ELSE IF cell.t = "String"
  THEN LET parsed == ParseMDY(cell.s)
       IN IF parsed.ok THEN [tag |-> "some", date |-> parsed.date]
          ELSE [tag |-> "panic", date |-> 0]
  ELSE [tag |-> "none", date |-> 0]

\* the Invoice pushed for a row whose emission date is Some
InvoiceOfRow(row, date) ==
  [emission_date    |-> date,
   number           |-> GetFloatOrZero(row.number),
   client           |-> GetStringOrEmpty(row.client),
   payment_interval |-> GetStringOrEmpty(row.payment_interval),
   value            |-> Frac(GetFloatOrZero(row.value), 1)]

RECURSIVE ReadRows(_, _)
\* the loop of get_invoices over the remaining rows rs, acc the invoices so far
ReadRows(rs, acc) ==
  IF Len(rs) = 0 THEN [ok |-> TRUE, invoices |-> acc]
  ELSE LET e == EmissionDate(rs[1].emission)
       IN IF e.tag = "panic" THEN [ok |-> FALSE, invoices |-> acc]
          ELSE IF e.tag = "some"
               THEN ReadRows(Tail(rs), Append(acc, InvoiceOfRow(rs[1], e.date)))
               ELSE ReadRows(Tail(rs), acc)

(***************************************************************************)
(* get_commissions_by_month: one iteration of the loop over the invoices.  *)
(* A record also carries origin = <<invoice index, installment index>>, a  *)
(* history field that is not part of CommissionedInvoice.                  *)
(***************************************************************************)
\* mutant: insert(key, vec![rec]), which replaces the bucket
PushEntryOverwrite(map, key, rec) ==
  IF key \in DOMAIN map THEN [map EXCEPT ![key] = <<rec>>]
  ELSE map @@ (key :> <<rec>>)

\* entry(key).or_insert(Vec::new()).push(rec)
PushEntry(map, key, rec) ==
  IF key \in DOMAIN map THEN [map EXCEPT ![key] = Append(@, rec)]
  ELSE map @@ (key :> <<rec>>)

\* the condition of the if: the invoice yields a single installment
IsImmediate(invoice) ==
  \/ Trim(invoice.payment_interval) = CashMarker
  \/ ~InstallmentsIsMatch(invoice.payment_interval)

\* the pieces of the captured text
Intervals(invoice) == Split(InstallmentsCapture(invoice.payment_interval), "/")

\* mutant: the override is never read
CommissionDefaultOnly(invoice) == [ok |-> TRUE, val |-> DefaultCommission]

\* the rate of the scheduled branch; ok is FALSE when f64::from_str(..).unwrap()
\* panics
Commission(invoice) ==
  IF SpecialIsMatch(invoice.payment_interval)
  THEN F64FromStr(SpecialCapture(invoice.payment_interval))
  ELSE [ok |-> TRUE, val |-> DefaultCommission]

\* mutant: the then-branch applies the rate override
PushImmediateWithOverride(map, invoice, i) ==
  LET next_month == FormatMonthYear(AddDays(invoice.emission_date, ImmediateDays))
  IN PushEntry(map, next_month,
       [emission_date     |-> invoice.emission_date,
        number            |-> invoice.number,
        client            |-> invoice.client,
        installment_value |-> invoice.value,
        commission_value  |->
          CommissionValue(Commission(invoice).val, invoice.value),
        origin            |-> <<i, 1>>])

\* the then-branch
PushImmediate(map, invoice, i) ==
  LET next_month == FormatMonthYear(AddDays(invoice.emission_date, ImmediateDays))
  IN PushEntry(map, next_month,
       [emission_date     |-> invoice.emission_date,
        number            |-> invoice.number,
        client            |-> invoice.client,
        installment_value |-> invoice.value,
        commission_value  |-> CommissionValue(DefaultCommission, invoice.value),
        origin            |-> <<i, 1>>])

RECURSIVE PushScheduledSkipping(_, _, _, _)
\* mutant: a piece that is not an integer is skipped instead of panicking
PushScheduledSkipping(map, invoice, i, k) ==
  LET intervals == Intervals(invoice)
      days == I16FromStr(intervals[k])
      installment_month ==
        FormatMonthYear(AddDays(invoice.emission_date, days.val))
      installment_value == InstallmentValue(invoice.value, Len(intervals))
      rec == [emission_date     |-> invoice.emission_date,
              number            |-> invoice.number,
              client            |-> invoice.client,
              installment_value |-> installment_value,
              commission_value  |->
                CommissionValue(Commission(invoice).val, installment_value),
              origin            |-> <<i, k>>]
  IN IF k > Len(intervals) THEN [ok |-> TRUE, map |-> map]
     ELSE IF ~days.ok THEN PushScheduledSkipping(map, invoice, i, k + 1)
     ELSE PushScheduledSkipping(PushEntry(map, installment_month, rec),
                                invoice, i, k + 1)

RECURSIVE PushScheduled(_, _, _, _)
\* the for loop over the intervals from the k-th one on; ok is FALSE when
\* i16::from_str(..).unwrap() panics, the earlier pushes having been made
PushScheduled(map, invoice, i, k) ==
  LET intervals == Intervals(invoice)
      days == I16FromStr(intervals[k])
      installment_month ==
        FormatMonthYear(AddDays(invoice.emission_date, days.val))
      installment_value == InstallmentValue(invoice.value, Len(intervals))
      rec == [emission_date     |-> invoice.emission_date,
              number            |-> invoice.number,
              client            |-> invoice.client,
              installment_value |-> installment_value,
              commission_value  |->
                CommissionValue(Commission(invoice).val, installment_value),
              origin            |-> <<i, k>>]
  IN IF k > Len(intervals) THEN [ok |-> TRUE, map |-> map]
     ELSE IF ~days.ok THEN [ok |-> FALSE, map |-> map]
     ELSE PushScheduled(PushEntry(map, installment_month, rec), invoice, i, k + 1)

\* the body of the loop for the i-th invoice
ProcessInvoice(map, invoice, i) ==
  IF IsImmediate(invoice)
  THEN [ok |-> TRUE, map |-> PushImmediate(map, invoice, i)]
  ELSE IF ~Commission(invoice).ok THEN [ok |-> FALSE, map |-> map]
  ELSE PushScheduled(map, invoice, i, 1)

(***************************************************************************)
(* Input sheets explored.                                                  *)
(***************************************************************************)
ExcelSerial(y, m, d) == DaysFromCivil(y, m, d) + ExcelUnixEpoch

RECURSIVE SeqsUpTo(_, _)
\* the sequences over S of length at most n
SeqsUpTo(S, n) ==
  IF n = 0 THEN {<<>>}
  ELSE LET shorter == SeqsUpTo(S, n - 1)
       IN shorter \cup {Append(q, x) : q \in {r \in shorter : Len(r) = n - 1}, x \in S}

RECURSIVE JoinGroups(_)
\* the groups of a sequence joined by '/'
JoinGroups(gs) ==
  IF Len(gs) = 1 THEN gs[1]
  ELSE gs[1] \o <<"/">> \o JoinGroups(Tail(gs))

DigitGroups == {<<"3","0">>, <<"3","9","6">>, <<"0","0">>, <<"5">>}

TextSuffixes == {<<>>, <<" ","5","%">>, <<" ","0","%">>, <<"/">>, <<"/"," ","5","%">>, <<"9">>}

OtherTexts ==
  {CashMarker, <<" ">> \o CashMarker \o <<" ">>,
   CashMarker \o <<" ","3","%">>,
   <<"U+0663","0">>, <<"3","0","U+0663">>, <<"3","0"," ","U+0663","%">>,
   <<"U+0663","%">>, <<"3","0","/","6","0"," ","5","%"," ","U+0663","%">>,
   <<>>,
   <<"7">>,
   <<"4","5">>,
   <<"5","/","1","0">>,
   <<"3","0","6","0">>,
   <<" ","3","0">>,
   <<"3","0","/","6","0"," ","1","5","%">>,
   <<"A"," ","V","I","S","T","A"," ","5","%">>,
   <<"1","2","3","4","/","5","6">>,
   <<"3","0","/","/","6","0">>,
   <<"9","9","9","9","9">>}

\* payment-interval texts of the single-row sheets
RichTexts ==
  {JoinGroups(gs) \o suffix :
     gs \in SeqsUpTo(DigitGroups, MaxGroups) \ {<<>>}, suffix \in TextSuffixes}
  \cup OtherTexts

\* payment-interval texts of the multi-row sheets
SmallTexts == {<<"3","0","/","6","0">>, CashMarker, <<"3","0","/">>}

\* emission cells of the multi-row sheets
SmallEmissions ==
  {DateTimeCell(ExcelSerial(2023, 1, 12)), DateTimeCell(ExcelSerial(2023, 1, 20)),
   StringCell(<<"1","2","/","1","5","/","2","0","2","3">>), StringCell(<<"0","2","/","3","0","/","2","0","2","3">>),
   EmptyCell}

SheetRow(emission, number, client, text, value) ==
  [emission |-> emission, number |-> number, client |-> client,
   payment_interval |-> text, value |-> value]

SmallRows ==
  {SheetRow(e, FloatCell(101), StringCell(<<"A","C","M","E">>), StringCell(t),
            FloatCell(1000)) : e \in SmallEmissions, t \in SmallTexts}

RichRows ==
  {SheetRow(StringCell(<<"1","2","/","1","5","/","2","0","2","3">>), FloatCell(102),
            StringCell(<<"B","O","B">>), StringCell(t), FloatCell(1000)) :
     t \in RichTexts}

\* rows with cells of unexpected types
OddRows ==
  {SheetRow(e, EmptyCell, EmptyCell, EmptyCell, EmptyCell) :
     e \in {StringCell(<<"1","/","5","/","2","0","2","4">>), StringCell(<<"a","b","c">>),
            StringCell(<<"1","3","/","0","1","/","2","0","2","4">>), FloatCell(45000),
            DateTimeCell(ExcelSerial(2024, 2, 29))}}

InputSheets ==
  SeqsUpTo(SmallRows, MaxRows) \cup {<<r>> : r \in RichRows \cup OddRows}

(***************************************************************************)
(* The program: main.                                                      *)
(***************************************************************************)
NoResult == [invoices_by_month |-> <<>>, ordered_months |-> <<>>, sheets |-> <<>>]

Init ==
  /\ rows \in InputSheets
  /\ invoices = <<>>
  /\ idx = 0
  /\ invoices_by_month = <<>>
  /\ ordered_months = <<>>
  /\ sheets = <<>>
  /\ pc = "get_invoices"
  /\ run = 1
  /\ first_run = NoResult

\* let invoices = get_invoices(&args)
GetInvoices ==
  /\ pc = "get_invoices"
  /\ LET r == ReadRows(rows, <<>>)
     IN IF r.ok
        THEN /\ invoices' = r.invoices
             /\ idx' = 1
             /\ pc' = "get_commissions_by_month"
        ELSE /\ pc' = "panicked"
             /\ UNCHANGED <<invoices, idx>>
  /\ UNCHANGED <<rows, invoices_by_month, ordered_months, sheets, run, first_run>>

\* one iteration of `for invoice in invoices`
GetCommissionsStep ==
  /\ pc = "get_commissions_by_month"
  /\ idx <= Len(invoices)
  /\ LET r == ProcessInvoice(invoices_by_month, invoices[idx], idx)
     IN /\ invoices_by_month' = r.map
        /\ IF r.ok THEN idx' = idx + 1 /\ pc' = pc
           ELSE idx' = idx /\ pc' = "panicked"
  /\ UNCHANGED <<rows, invoices, ordered_months, sheets, run, first_run>>

\* the orders in which HashMap::keys() can yield the keys
KeyOrders(map) ==
  LET K == DOMAIN map
      n == Cardinality(K)
  IN {p \in [1..n -> K] : \A i, j \in 1..n : i # j => p[i] # p[j]}

\* create_commission_sheets: one worksheet per month, in the order given
CommissionSheets(months, map) ==
  [i \in 1..Len(months) |-> [name |-> months[i], data |-> map[months[i]]]]

\* the rest of main once the loop has ended: keys().collect(), sort_by,
\* create_commission_sheets (which panics when the file cannot be created)
OrderAndWrite ==
  /\ pc = "get_commissions_by_month"
  /\ idx > Len(invoices)
  /\ \E keys \in KeyOrders(invoices_by_month), creatable \in BOOLEAN :
       /\ ordered_months' = SortBy(keys)
       /\ IF creatable
          THEN /\ sheets' = CommissionSheets(ordered_months', invoices_by_month)
               /\ pc' = "done"
          ELSE /\ sheets' = sheets
               /\ pc' = "panicked"
  /\ UNCHANGED <<rows, invoices, idx, invoices_by_month, run, first_run>>

\* the program is run a second time on the same input sheet
RunAgain ==
  /\ pc = "done"
  /\ run = 1
  /\ first_run' = [invoices_by_month |-> invoices_by_month,
                   ordered_months |-> ordered_months, sheets |-> sheets]
  /\ run' = 2
  /\ invoices' = <<>>
  /\ idx' = 0
  /\ invoices_by_month' = <<>>
  /\ ordered_months' = <<>>
  /\ sheets' = <<>>
  /\ pc' = "get_invoices"
  /\ UNCHANGED rows

Next == GetInvoices \/ GetCommissionsStep \/ OrderAndWrite

Spec == Init /\ [][Next]_vars

NextTwice == Next \/ RunAgain

SpecTwice == Init /\ [][NextTwice]_vars

(***************************************************************************)
(* Vocabulary of the properties.                                           *)
(***************************************************************************)
\* the invoices whose loop iteration has run to its end
Completed == 1..(IF idx - 1 <= Len(invoices) THEN idx - 1 ELSE Len(invoices))

\* the loop stopped with a panic in the iteration of invoice i
PanickedAt(i) == pc = "panicked" /\ idx = i /\ i \in 1..Len(invoices)

\* every <<bucket, position>> of the map
Places ==
  UNION {{<<label, pos>> : pos \in 1..Len(invoices_by_month[label])} :
           label \in DOMAIN invoices_by_month}

RecordAt(q) == invoices_by_month[q[1]][q[2]]

\* where the records of installment k of invoice i are stored
PlacesOf(i, k) == {q \in Places : RecordAt(q).origin = <<i, k>>}

\* where the records of invoice i are stored
PlacesOfInvoice(i) == {q \in Places : RecordAt(q).origin[1] = i}

\* the text begins with two digits: the offsets pattern matches
StartsWithTwoDigits(text) == Len(text) >= 2 /\ IsDigit(text[1]) /\ IsDigit(text[2])

\* the invoice yields a single installment 30 days after emission
SingleInstallment(invoice) ==
  \/ Trim(invoice.payment_interval) = CashMarker
  \/ ~StartsWithTwoDigits(invoice.payment_interval)

\* the offsets of a scheduled invoice whose pieces are all integers
Offsets(invoice) ==
  [k \in 1..Len(Intervals(invoice)) |-> I16FromStr(Intervals(invoice)[k]).val]

\* one piece of the captured text is not an integer
HasBadOffset(invoice) ==
  /\ ~SingleInstallment(invoice)
  /\ \E k \in 1..Len(Intervals(invoice)) : ~I16FromStr(Intervals(invoice)[k]).ok

\* the due dates of an invoice, one per installment
DueDates(invoice) ==
  IF SingleInstallment(invoice)
  THEN <<invoice.emission_date + 30>>
  ELSE [k \in 1..Len(Intervals(invoice)) |->
          invoice.emission_date + Offsets(invoice)[k]]

\* "MonthName Year" of a date
MonthLabel(date) ==
  MonthNames[CivilFromDays(date).m] \o " " \o ToString(CivilFromDays(date).y)

SameMonth(d1, d2) ==
  /\ CivilFromDays(d1).y = CivilFromDays(d2).y
  /\ CivilFromDays(d1).m = CivilFromDays(d2).m

\* year * 12 + month of a label
LabelKey(label) ==
  LET ym == CHOOSE q \in (2020..2030) \X (1..12) :
              MonthNames[q[2]] \o " " \o ToString(q[1]) = label
  IN ym[1] * 12 + ym[2]

\* a = b * c / d on rationals
IsProduct(a, b, c, d) == a.num * b.den * d = b.num * c * a.den

(***************************************************************************)
(* C1. The month labels handed to the sheet writer are in strictly         *)
(* chronological order: a label that precedes another is of an earlier     *)
(* (year, month), whatever order the bucket map yields its keys in.        *)
(***************************************************************************)
C1_Chronological ==
  pc = "done" =>
    \A i, j \in 1..Len(ordered_months) :
      i < j => LabelKey(ordered_months[i]) < LabelKey(ordered_months[j])

(***************************************************************************)
(* C2. Two runs of the pipeline on the same invoice collection give the    *)
(* same buckets, the same installments in the same order in each bucket,   *)
(* and the same order of month labels.                                     *)
(***************************************************************************)
C2_SameResultTwice ==
  (run = 2 /\ pc = "done") =>
    /\ invoices_by_month = first_run.invoices_by_month
    /\ ordered_months = first_run.ordered_months
    /\ sheets = first_run.sheets

(***************************************************************************)
(* C3. Every installment of an invoice processed without aborting is in    *)
(* exactly one bucket, whose key is the "MonthName Year" label of its due  *)
(* date; installments due in the same month and year share a bucket and    *)
(* no bucket holds installments due in different months.                   *)
(***************************************************************************)
C3_OneBucketPerInstallment ==
  /\ \A i \in Completed :
       \A k \in 1..Len(DueDates(invoices[i])) :
         /\ Cardinality(PlacesOf(i, k)) = 1
         /\ \A q \in PlacesOf(i, k) : q[1] = MonthLabel(DueDates(invoices[i])[k])
  /\ \A q1, q2 \in {q \in Places : RecordAt(q).origin[1] \in Completed} :
       LET o1 == RecordAt(q1).origin
           o2 == RecordAt(q2).origin
       IN (q1[1] = q2[1]) <=>
            SameMonth(DueDates(invoices[o1[1]])[o1[2]],
                      DueDates(invoices[o2[1]])[o2[2]])

\* two installments of different invoices share a bucket, another is elsewhere
C3_Witness ==
  /\ pc = "done"
  /\ \E q1, q2, q3 \in Places :
       /\ q1[1] = q2[1] /\ q3[1] # q1[1]
       /\ RecordAt(q1).origin[1] # RecordAt(q2).origin[1]

(***************************************************************************)
(* C4. A scheduled invoice with n offsets yields exactly n installment     *)
(* records, in the order of its offsets, each of value invoice value / n   *)
(* and each with the invoice's number, client and emission date.           *)
(***************************************************************************)
C4_ScheduledSplit ==
  \A i \in Completed :
    ~SingleInstallment(invoices[i]) =>
      LET n == Len(Intervals(invoices[i]))
      IN /\ Cardinality(PlacesOfInvoice(i)) = n
         /\ \A k \in 1..n :
              /\ Cardinality(PlacesOf(i, k)) = 1
              /\ \A q \in PlacesOf(i, k) :
                   /\ q[1] = MonthLabel(invoices[i].emission_date
                                          + Offsets(invoices[i])[k])
                   /\ IsProduct(RecordAt(q).installment_value,
                                invoices[i].value, 1, n)
                   /\ RecordAt(q).number = invoices[i].number
                   /\ RecordAt(q).client = invoices[i].client
                   /\ RecordAt(q).emission_date = invoices[i].emission_date
         /\ \A q1, q2 \in PlacesOfInvoice(i) :
              (q1[1] = q2[1] /\ RecordAt(q1).origin[2] < RecordAt(q2).origin[2])
                => q1[2] < q2[2]

\* an invoice with two valid offsets has been processed
C4_Witness ==
  \E i \in Completed :
    /\ ~SingleInstallment(invoices[i])
    /\ Len(Intervals(invoices[i])) = 2
    /\ Cardinality(PlacesOfInvoice(i)) = 2

(***************************************************************************)
(* C5. An invoice whose trimmed text is the cash marker, or whose text     *)
(* does not match the offsets pattern, yields exactly one installment: the *)
(* full value, 7% commission even with a '<digit>%' in the text, in the    *)
(* bucket of emission date + 30 days.                                      *)
(***************************************************************************)
C5_ImmediateSingle ==
  \A i \in Completed :
    SingleInstallment(invoices[i]) =>
      /\ Cardinality(PlacesOfInvoice(i)) = 1
      /\ \A q \in PlacesOfInvoice(i) :
           /\ q[1] = MonthLabel(invoices[i].emission_date + 30)
           /\ RecordAt(q).installment_value = invoices[i].value
           /\ IsProduct(RecordAt(q).commission_value, invoices[i].value, 7, 100)

\* an immediate invoice whose text carries a rate override has been processed
C5_Witness ==
  \E i \in Completed :
    /\ SingleInstallment(invoices[i])
    /\ \E j \in 1..(Len(invoices[i].payment_interval) - 1) :
         /\ IsDigit(invoices[i].payment_interval[j])
         /\ invoices[i].payment_interval[j + 1] = "%"
    /\ invoices[i].value.num > 0
    /\ Cardinality(PlacesOfInvoice(i)) = 1

(***************************************************************************)
(* Vocabulary of the properties about the interval text.                   *)
(***************************************************************************)
\* the positions of the text where a digit is followed by '%'
OverridePositions(text) ==
  {j \in 1..(Len(text) - 1) : IsDigit(text[j]) /\ text[j + 1] = "%"}

\* the digit of the leftmost '<digit>%' of the text
OverrideDigit(text) ==
  LET c == text[CHOOSE j \in OverridePositions(text) :
                  \A h \in OverridePositions(text) : j <= h]
  IN IF c = "U+0663" THEN 3 ELSE DigitValue(c)

\* the leftmost '<digit>%' of the text, if any, has an ASCII digit
OverrideReadable(text) ==
  \A j \in OverridePositions(text) :
    (\A h \in OverridePositions(text) : j <= h) => IsAsciiDigit(text[j])

\* the rate the property expects for a text
ExpectedRate(text) ==
  IF OverridePositions(text) # {} THEN OverrideDigit(text) ELSE 7

RECURSIVE RunLength(_, _)
\* the length of the whole run of ASCII digits of the text from position pos
RunLength(text, pos) ==
  IF pos > Len(text) \/ ~IsAsciiDigit(text[pos]) THEN 0
  ELSE 1 + RunLength(text, pos + 1)

RECURSIVE LeadingGroups(_, _, _)
\* the digit groups the text begins with from position pos: whole runs of
\* lo to 3 digits, each separated from the next by one '/'
LeadingGroups(text, pos, lo) ==
  LET n == RunLength(text, pos)
      next == pos + n
  IN IF n < lo \/ n > 3 THEN <<>>
     ELSE IF next <= Len(text) /\ text[next] = "/"
               /\ RunLength(text, next + 1) >= lo /\ RunLength(text, next + 1) <= 3
          THEN <<SubSeq(text, pos, next - 1)>> \o LeadingGroups(text, next + 1, lo)
          ELSE <<SubSeq(text, pos, next - 1)>>

\* the text position just after the leading groups
AfterGroups(text, lo) ==
  LET gs == LeadingGroups(text, 1, lo)
  IN 1 + Len(JoinGroups(gs))

\* the text begins with groups of lo to 3 digits separated by '/', the last
\* one followed neither by '/' nor by another digit, and its rate override,
\* if any, is readable
WellFormedSchedule(text, lo) ==
  LET after == AfterGroups(text, lo)
  IN /\ Len(LeadingGroups(text, 1, lo)) >= 1
     /\ ~(after <= Len(text) /\ (text[after] = "/" \/ IsDigit(text[after])))
     /\ OverrideReadable(text)

\* invoice i was treated as scheduled with exactly the offsets of groups gs
ScheduledWith(i, gs) ==
  /\ ~PanickedAt(i)
  /\ i \in Completed =>
       /\ ~IsImmediate(invoices[i])
       /\ Cardinality(PlacesOfInvoice(i)) = Len(gs)
       /\ \A k \in 1..Len(gs) :
            /\ Cardinality(PlacesOf(i, k)) = 1
            /\ \A q \in PlacesOf(i, k) :
                 /\ q[1] = MonthLabel(invoices[i].emission_date + ToNumber(gs[k]))
                 /\ IsProduct(RecordAt(q).installment_value,
                              invoices[i].value, 1, Len(gs))

(***************************************************************************)
(* C6 as stated. Every installment of an invoice whose text contains a     *)
(* '<digit>%' override has commission digit x installment value / 100, and *)
(* every installment of an invoice without one has 7 x value / 100.        *)
(***************************************************************************)
C6_RateEveryInvoice ==
  \A i \in Completed :
    \A q \in PlacesOfInvoice(i) :
      IsProduct(RecordAt(q).commission_value, RecordAt(q).installment_value,
                ExpectedRate(invoices[i].payment_interval), 100)

(***************************************************************************)
(* C6 amended. Every installment of an invoice that takes the scheduled    *)
(* branch has commission digit x installment value / 100 when its text     *)
(* contains a '<digit>%' override (the leftmost one), and 7 x installment  *)
(* value / 100 when it contains none; every installment of an invoice      *)
(* whose text contains no override has 7 x installment value / 100.        *)
(***************************************************************************)
C6_RateScheduled ==
  \A i \in Completed :
    (~SingleInstallment(invoices[i])
       \/ OverridePositions(invoices[i].payment_interval) = {}) =>
      \A q \in PlacesOfInvoice(i) :
        IsProduct(RecordAt(q).commission_value, RecordAt(q).installment_value,
                  ExpectedRate(invoices[i].payment_interval), 100)

\* a scheduled invoice with an override other than 7 has been processed
C6_Witness ==
  \E i \in Completed :
    /\ ~SingleInstallment(invoices[i])
    /\ OverridePositions(invoices[i].payment_interval) # {}
    /\ ExpectedRate(invoices[i].payment_interval) = 5
    /\ Cardinality(PlacesOfInvoice(i)) = 2

(***************************************************************************)
(* C7 as stated. A text that begins with k >= 1 groups of one to three     *)
(* digits separated by '/' makes the invoice scheduled with exactly k      *)
(* offsets, the i-th being the value of the i-th group, never immediate.   *)
(* (Read in its favour: the groups are not followed by a further '/' or    *)
(* digit, and the rate override, if any, is readable.)                     *)
(***************************************************************************)
C7_OneToThreeDigitGroups ==
  \A i \in 1..Len(invoices) :
    WellFormedSchedule(invoices[i].payment_interval, 1)
      => ScheduledWith(i, LeadingGroups(invoices[i].payment_interval, 1, 1))

(***************************************************************************)
(* C7 amended. A text that begins with k >= 1 groups of two to three       *)
(* ASCII digits separated by '/', the last group followed neither by a     *)
(* '/' nor by another digit, and whose rate override, if any, is an ASCII  *)
(* digit, makes the invoice scheduled with exactly k offsets, the i-th     *)
(* being the value of the i-th group, never immediate.                     *)
(***************************************************************************)
C7_TwoToThreeDigitGroups ==
  \A i \in 1..Len(invoices) :
    WellFormedSchedule(invoices[i].payment_interval, 2)
      => ScheduledWith(i, LeadingGroups(invoices[i].payment_interval, 1, 2))

\* an invoice whose text begins with two groups has been processed
C7_Witness ==
  \E i \in Completed :
    /\ WellFormedSchedule(invoices[i].payment_interval, 2)
    /\ Len(LeadingGroups(invoices[i].payment_interval, 1, 2)) = 2
    /\ Cardinality(PlacesOfInvoice(i)) = 2

(***************************************************************************)
(* C8. When the text of an invoice matches the offsets pattern and one of  *)
(* its '/'-separated offsets is not a valid integer, the run aborts at     *)
(* that invoice (at the first such invoice when there are several): the    *)
(* loop never completes it, it is neither dropped nor treated as           *)
(* immediate, and no worksheet is written for any invoice.                 *)
(***************************************************************************)
C8_BadOffsetAborts ==
  LET bad == {i \in 1..Len(invoices) : HasBadOffset(invoices[i])}
  IN \A i \in bad :
       /\ idx <= i
       /\ pc # "done"
       /\ sheets = <<>>
       /\ (\A j \in bad : i <= j) =>
            (pc = "get_commissions_by_month" \/ PanickedAt(i))

\* the run aborted at a bad invoice after an earlier one had been processed
C8_Witness ==
  /\ idx >= 2
  /\ PanickedAt(idx)
  /\ HasBadOffset(invoices[idx])
  /\ PlacesOfInvoice(1) # {}
  /\ sheets = <<>>

(***************************************************************************)
(* C9. get_invoices skips every row whose emission cell cannot be read as  *)
(* a date, without aborting, and returns one invoice for every other row,  *)
(* in file order.                                                          *)
(***************************************************************************)
C9_SkipsUnreadableRows ==
  LET readable == SelectSeq(rows, LAMBDA r : EmissionDate(r.emission).tag = "some")
  IN pc # "get_invoices" =>
       /\ ~(pc = "panicked" /\ idx = 0)
       /\ Len(invoices) = Len(readable)
       /\ \A i \in 1..Len(invoices) :
            invoices[i] =
              InvoiceOfRow(readable[i], EmissionDate(readable[i].emission).date)

====
